---- MODULE Spec2Model ----
(***************************************************************************)
(* The layer-stack engine of onmt/modules/ParallelTransformer/Models.py:   *)
(* ParallelTransformerEncoder and ParallelTransformerDecoder, their layer  *)
(* growth (add_layers, mark_pretrained), the three execution modes         *)
(* (forward, forward_grow, step), the memory bank, the causal mask         *)
(* register and the checkpointing policy.                                  *)
(*                                                                         *)
(* Tensors are abstracted to what the stack code decides about them: which *)
(* layer ran, in which order, through which wrapper, on which memory-bank  *)
(* entry, under which mask.  Python attributes that may be absent          *)
(* (pretrained_point, new_modules, the decoder's postprocess_layer) are    *)
(* options: <<>> is an absent attribute, <<x>> an attribute holding x.     *)
(* An uncaught exception ends the program: after a call raised, no further *)
(* call is made.                                                           *)
(*                                                                         *)
(* The initial states are stacks as constructed, untrained (every          *)
(* normalization unit holds the fresh parameter values) or trained (every  *)
(* unit holds values of its own).  self.training and the global checkpoint *)
(* depth are fixed at construction.  Spec takes one stack, an encoder or a *)
(* decoder, through growth and forward passes; SpecPair takes an encoder   *)
(* and a decoder through the same growth calls; SpecStep takes a decoder   *)
(* through a decoding session.                                             *)
(***************************************************************************)
EXTENDS Integers, Sequences, FiniteSets, TLC

\* ---------------------------------------------------------------- bounds
\* The most layers a stack is grown to, and the longest token sequence.
MaxLayers == 3
MaxLen == 2

\* Derived ranges: a stack is constructed with room left to grow, one call
\* adds at most as many layers as fit, and the checkpoint depth ranges past
\* the layer count.
InitLayerCounts == 1..(MaxLayers - 1)
NewLayerCounts == 0..(MaxLayers - 1)
CheckpointDepths == 0..MaxLayers

\* ------------------------------------------------------ program constants
PAD == 0
FreshParams == 0

TimeKinds == {"positional_encoding", "gru", "lstm"}

VARIABLES enc, dec, built, checkpointing, nobj, prefix, buffer, ret

vars == <<enc, dec, built, checkpointing, nobj, prefix, buffer, ret>>

\* ---------------------------------------------------------------- options
None == <<>>
Some(x) == <<x>>
IsSet(o) == Len(o) = 1
Val(o) == o[1]

Min(a, b) == IF a <= b THEN a ELSE b

\* ---------------------------------------------------------------- objects
\* A PrePostProcessing unit: an object identity and its parameter values.
PrePostProcessing(id, params) == [id |-> id, params |-> params]

\* A freshly constructed layer (ParallelEncoderLayer or DecoderLayer): the
\* layer object heap+1 owning the fresh pre-attention unit heap+2.
NewLayer(heap) ==
    [id |-> heap + 1, preprocess_attn |-> PrePostProcessing(heap + 2, FreshParams)]

\* Parameter values after training: every unit holds values of its own,
\* written as the unit's identity; untrained units hold FreshParams.
ParamsOf(id, trained) == IF trained THEN id ELSE FreshParams

\* The layers built by the constructor's list comprehension, ids from heap.
RECURSIVE InitLayers(_, _, _)
InitLayers(n, heap, trained) ==
    IF n = 0 THEN <<>>
    ELSE Append(InitLayers(n - 1, heap, trained),
                [id |-> heap + 2 * n - 1,
                 preprocess_attn |->
                     PrePostProcessing(heap + 2 * n, ParamsOf(heap + 2 * n, trained))])

\* ParallelTransformerEncoder.__init__ with opt.layers = L; its objects take
\* the identities heap+1 .. heap+2L+1.
EncoderInit(L, training, trained, heap) ==
    [layers |-> L,
     layer_modules |-> InitLayers(L, heap + 1, trained),
     postprocess_layer |->
         Some(PrePostProcessing(heap + 1, ParamsOf(heap + 1, trained))),
     pretrained_point |-> None,
     new_modules |-> None,
     training |-> training,
     time |-> "positional_encoding",
     version |-> 1,
     mask |-> <<>>]

\* Mutant: the diagonal offset is dropped (np.triu(..., k=0)).
Triu_Mutant(n, k) == [i \in 1..n |-> [j \in 1..n |-> IF j - i >= 0 THEN 1 ELSE 0]]

\* np.triu(np.ones((n, n)), k): entry (i, j), 1-based, is 1 iff j - i >= k.
Triu(n, k) == [i \in 1..n |-> [j \in 1..n |-> IF j - i >= k THEN 1 ELSE 0]]

\* ParallelTransformerDecoder.__init__ with opt.layers = L, opt.version,
\* opt.time and a positional encoder of table length len_max.
DecoderInit(L, training, trained, version, time, len_max, heap) ==
    [layers |-> L,
     layer_modules |-> InitLayers(L, heap + 1, trained),
     postprocess_layer |->
         IF version = 1
         THEN Some(PrePostProcessing(heap + 1, ParamsOf(heap + 1, trained)))
         ELSE None,
     pretrained_point |-> None,
     new_modules |-> None,
     training |-> training,
     time |-> time,
     version |-> version,
     mask |-> Triu(len_max, 1)]

\* ------------------------------------------------------------ call results
\* What the last call did: its name, the stack it ran on, whether it
\* returned or raised, and what it executed and returned.  Of a decoder
\* forward the result keeps the target length (the shape of the hidden
\* states returned); of a step also the one-row target mask handed to the
\* layers; of an encoder forward also the input it was called with.
Result(op, stack, status) ==
    [op |-> op, stack |-> stack, status |-> status, error |-> "",
     mode |-> "none", grow |-> FALSE, n |-> 0, input |-> <<>>,
     trace |-> <<>>, frozen |-> FALSE, memory_bank |-> <<>>, mask_src |-> <<>>,
     len_tgt |-> 0, mask_tgt |-> <<>>, context_len |-> 0,
     t |-> 0, prev_h |-> None, hidden |-> None,
     buffer_in |-> None, buffer_out |-> None]

Raise(op, stack, error) == [Result(op, stack, "error") EXCEPT !.error = error]

Running == ret.status = "ok"

\* ------------------------------------------------------------------ growth
\* add_layers, `if i == 0`: the iteration whose layer is spliced.
IsSplicedIteration(i) == i = 0

\* Mutant: the state dict is not loaded.
LoadStateDict_Mutant(layer, post) == layer

\* layer.preprocess_attn.load_state_dict(self.postprocess_layer.state_dict()):
\* the layer's own unit takes the parameter values of the unit post.
LoadStateDict(layer, post) == [layer EXCEPT !.preprocess_attn.params = post.params]

\* self.postprocess_layer = PrePostProcessing(self.model_size, 0, sequence='n')
ReplacePostprocess(self, heap) ==
    [self EXCEPT !.postprocess_layer = Some(PrePostProcessing(heap + 1, FreshParams))]

\* The for loop of add_layers from iteration i on; [self, heap, raised].
\* A stack without postprocess_layer (decoder, version # 1.0) raises
\* AttributeError in the spliced iteration, after self.layers was increased.
RECURSIVE AddLayersLoop(_, _, _, _)
AddLayersLoop(self, i, n, heap) ==
    IF i >= n THEN [self |-> self, heap |-> heap, raised |-> FALSE]
    ELSE LET layer == NewLayer(heap) IN
         IF IsSplicedIteration(i)
         THEN IF ~IsSet(self.postprocess_layer)
              THEN [self |-> self, heap |-> heap + 2, raised |-> TRUE]
              ELSE LET spliced == LoadStateDict(layer, Val(self.postprocess_layer))
                       s1 == ReplacePostprocess(self, heap + 2)
                   IN AddLayersLoop(
                          [s1 EXCEPT !.layer_modules = Append(@, spliced)],
                          i + 1, n, heap + 3)
         ELSE AddLayersLoop([self EXCEPT !.layer_modules = Append(@, layer)],
                            i + 1, n, heap + 2)

\* Mutant: growth also moves the pretrained boundary to the old layer count.
add_layers_Mutant(self, n, heap) ==
    AddLayersLoop([self EXCEPT !.new_modules = Some(<<>>), !.layers = @ + n,
                               !.pretrained_point = Some(self.layers)],
                  0, n, heap)

\* add_layers(self, n_new_layer), the same text in both classes.
add_layers(self, n, heap) ==
    AddLayersLoop([self EXCEPT !.new_modules = Some(<<>>), !.layers = @ + n],
                  0, n, heap)

\* Mutant: the boundary recorded is the index of the last layer.
mark_pretrained_Mutant(self) ==
    [self EXCEPT !.pretrained_point = Some(self.layers - 1)]

\* mark_pretrained(self): self.pretrained_point = self.layers
mark_pretrained(self) == [self EXCEPT !.pretrained_point = Some(self.layers)]

\* ------------------------------------------------------------------ inputs
\* Vocabulary ids: the padding id and a word.
Tokens == {PAD, 1}

\* Token sequences of one batch row, 1..MaxLen tokens.
Inputs == UNION {[1..n -> Tokens] : n \in 1..MaxLen}

\* The source sentence of the three-token scenario: word ids, none of them
\* the padding id.
ScenarioSrc == <<5, 7, 2>>

\* The source sentences an encoder/decoder pair is run on.
PairInputs == Inputs \cup {ScenarioSrc}

\* input.data.eq(onmt.Constants.PAD)
EqPad(input) == [j \in 1..Len(input) |-> input[j] = PAD]

\* The memory banks handed to a decoder, by their number of entries: as
\* many as it has layers, one fewer, or one more.
BankLengths(self) ==
    {Len(self.layer_modules) + d : d \in {-1, 0, 1}}

\* ------------------------------------------------------- checkpoint policy
\* Mutant: the comparison is strict, one layer fewer is checkpointed.
Checkpointed_Mutant(self, i) ==
    Len(self.layer_modules) - i < checkpointing /\ self.training

\* `len(self.layer_modules) - i <= onmt.Constants.checkpointing and
\* self.training`, for the 0-based layer index i.
Checkpointed(self, i) ==
    Len(self.layer_modules) - i <= checkpointing /\ self.training

\* One execution of layer i (0-based): the layer object, the wrapper it ran
\* through, whether autograd tracked it, the memory-bank index it read
\* (decoder; -1 for an encoder layer).
Run(self, i, ckpt, grad, ctx) ==
    [idx |-> i, layer |-> self.layer_modules[i + 1].id, ckpt |-> ckpt,
     grad |-> grad, context |-> ctx]

NormInput(i) == [kind |-> "norm_input", layer |-> i]
FinalOutput(self) ==
    [kind |-> "postprocess", layer |-> Val(self.postprocess_layer).id]

\* ----------------------------------------------------------------- encoder
\* Mutant: the norm input of the first layer is kept too.
KeepsNormInput_Mutant(i) == i >= 0

\* forward, `if i > 0`: the first layer's norm input is not kept.
KeepsNormInput(i) == i > 0

\* The layer loop of the full-mode encoder forward from index i on;
\* acc = [trace, memory_bank].
RECURSIVE EncFullLoop(_, _, _)
EncFullLoop(self, i, acc) ==
    IF i >= Len(self.layer_modules) THEN acc
    ELSE EncFullLoop(self, i + 1,
             [trace |-> Append(acc.trace, Run(self, i, Checkpointed(self, i), TRUE, -1)),
              memory_bank |-> IF KeepsNormInput(i)
                              THEN Append(acc.memory_bank, NormInput(i))
                              ELSE acc.memory_bank])

\* Mutant: the final post-processed output is not appended to the bank.
EncForwardFull_Mutant(self, input) ==
    LET loop == EncFullLoop(self, 0, [trace |-> <<>>, memory_bank |-> <<>>]) IN
    [Result("forward", "enc", "ok") EXCEPT
        !.mode = "full",
        !.trace = loop.trace,
        !.memory_bank = loop.memory_bank,
        !.mask_src = EqPad(input)]

\* forward(input, grow=False) of the encoder after the grow dispatch.
EncForwardFull(self, input) ==
    LET loop == EncFullLoop(self, 0, [trace |-> <<>>, memory_bank |-> <<>>]) IN
    [Result("forward", "enc", "ok") EXCEPT
        !.mode = "full",
        !.trace = loop.trace,
        !.memory_bank = Append(loop.memory_bank, FinalOutput(self)),
        !.mask_src = EqPad(input)]

\* Mutant: an absent boundary is read as "every layer is pretrained".
PretrainedPoint_Mutant(self) ==
    IF IsSet(self.pretrained_point) THEN self.pretrained_point
    ELSE Some(self.layers)

\* The read of self.pretrained_point in `range(self.pretrained_point)`: the
\* attribute as an option; absent, the read raises AttributeError.
PretrainedPoint(self) == self.pretrained_point

\* First loop of forward_grow (under torch.no_grad()): indices i..stop-1.
RECURSIVE EncPretrainedLoop(_, _, _, _)
EncPretrainedLoop(self, i, stop, acc) ==
    IF i >= stop THEN acc
    ELSE EncPretrainedLoop(self, i + 1, stop,
             [trace |-> Append(acc.trace, Run(self, i, FALSE, FALSE, -1)),
              memory_bank |-> IF KeepsNormInput(i)
                              THEN Append(acc.memory_bank, NormInput(i))
                              ELSE acc.memory_bank])

\* Mutant: the second loop indexes the layers without the offset p.
RECURSIVE EncNewLoop_Mutant(_, _, _, _, _)
EncNewLoop_Mutant(self, p, i, count, acc) ==
    IF i >= count THEN acc
    ELSE EncNewLoop_Mutant(self, p, i + 1, count,
             [trace |-> Append(acc.trace, Run(self, i, FALSE, TRUE, -1)),
              memory_bank |-> Append(acc.memory_bank, NormInput(i))])

\* Second loop of forward_grow: iterations i..count-1 on layer p + i.
RECURSIVE EncNewLoop(_, _, _, _, _)
EncNewLoop(self, p, i, count, acc) ==
    IF i >= count THEN acc
    ELSE EncNewLoop(self, p, i + 1, count,
             [trace |-> Append(acc.trace, Run(self, p + i, FALSE, TRUE, -1)),
              memory_bank |-> Append(acc.memory_bank, NormInput(p + i))])

\* forward_grow(input) of the encoder.  Reading self.pretrained_point before
\* mark_pretrained raises AttributeError (line 181).
EncForwardGrow(self, input) ==
    IF ~IsSet(PretrainedPoint(self))
    THEN [Raise("forward", "enc", "AttributeError") EXCEPT
             !.mode = "grow", !.grow = TRUE, !.frozen = TRUE]
    ELSE LET p == Val(PretrainedPoint(self))
             a == EncPretrainedLoop(self, 0, p, [trace |-> <<>>, memory_bank |-> <<>>])
             b == EncNewLoop(self, p, 0, self.layers - p, a)
         IN [Result("forward", "enc", "ok") EXCEPT
                !.mode = "grow", !.grow = TRUE, !.frozen = TRUE,
                !.trace = b.trace,
                !.memory_bank = Append(b.memory_bank, FinalOutput(self)),
                !.mask_src = EqPad(input)]

\* Mutant: a stack with a recorded boundary stays in grow mode.
EncForward_Mutant(self, input, grow) ==
    IF grow \/ IsSet(self.pretrained_point) THEN EncForwardGrow(self, input)
    ELSE EncForwardFull(self, input)

\* forward(self, input, grow=False) of the encoder.
EncForward(self, input, grow) ==
    IF grow THEN EncForwardGrow(self, input)
    ELSE EncForwardFull(self, input)

\* ----------------------------------------------------------------- decoder
\* renew_buffer(self, new_len): the positional table is renewed to new_len
\* and the mask register is rebuilt for new_len.
renew_buffer(self, new_len) == [self EXCEPT !.mask = Triu(new_len, 1)]

\* input.data.eq(PAD).unsqueeze(1) + self.mask[:len_tgt, :len_tgt], then
\* torch.gt(mask_tgt, 0), for len_tgt = len(input) <= len(mask).
MaskTgt(input, mask) ==
    [i \in 1..Len(input) |->
        [j \in 1..Len(input) |->
            ((IF input[j] = PAD THEN 1 ELSE 0) + mask[i][j]) > 0]]

\* The memory-bank index a decoder layer at 0-based index i reads: context[i].
ContextIndex(i) == i

\* The layer loop of the full-mode decoder forward from index i on;
\* acc = [trace, raised].  context[i] beyond the bank raises IndexError.
RECURSIVE DecFullLoop(_, _, _, _)
DecFullLoop(self, i, context_len, acc) ==
    IF i >= Len(self.layer_modules) THEN acc
    ELSE IF ContextIndex(i) >= context_len THEN [acc EXCEPT !.raised = TRUE]
    ELSE DecFullLoop(self, i + 1, context_len,
             [acc EXCEPT !.trace =
                 Append(@, Run(self, i, Checkpointed(self, i), TRUE, ContextIndex(i)))])

\* forward(input, context, src, grow=False) of the decoder after the grow
\* dispatch; context is given by its number of entries.
DecForwardFull(self, input, context_len) ==
    LET loop == DecFullLoop(self, 0, context_len, [trace |-> <<>>, raised |-> FALSE])
        r == [Result("forward", "dec", "ok") EXCEPT
                 !.mode = "full", !.context_len = context_len,
                 !.len_tgt = Len(MaskTgt(input, self.mask)),
                 !.trace = loop.trace]
    IN IF loop.raised
       THEN [r EXCEPT !.status = "error", !.error = "IndexError"]
       ELSE IF ~IsSet(self.postprocess_layer)
       THEN [r EXCEPT !.status = "error", !.error = "AttributeError"]
       ELSE r

\* First loop of the decoder's forward_grow (under torch.no_grad()).
RECURSIVE DecPretrainedLoop(_, _, _, _, _)
DecPretrainedLoop(self, i, stop, context_len, acc) ==
    IF i >= stop \/ acc.raised THEN acc
    ELSE IF ContextIndex(i) >= context_len THEN [acc EXCEPT !.raised = TRUE]
    ELSE DecPretrainedLoop(self, i + 1, stop, context_len,
             [acc EXCEPT !.trace =
                 Append(@, Run(self, i, FALSE, FALSE, ContextIndex(i)))])

\* Second loop of the decoder's forward_grow: layer p + i on context[p + i].
RECURSIVE DecNewLoop(_, _, _, _, _, _)
DecNewLoop(self, p, i, count, context_len, acc) ==
    IF i >= count \/ acc.raised THEN acc
    ELSE IF ContextIndex(p + i) >= context_len THEN [acc EXCEPT !.raised = TRUE]
    ELSE DecNewLoop(self, p, i + 1, count, context_len,
             [acc EXCEPT !.trace =
                 Append(@, Run(self, p + i, FALSE, TRUE, ContextIndex(p + i)))])

\* forward_grow(input, context, src) of the decoder.  Reading
\* self.pretrained_point before mark_pretrained raises AttributeError.
DecForwardGrow(self, input, context_len) ==
    LET r == [Result("forward", "dec", "ok") EXCEPT
                 !.mode = "grow", !.grow = TRUE, !.frozen = TRUE,
                 !.context_len = context_len,
                 !.len_tgt = Len(MaskTgt(input, self.mask))]
    IN IF ~IsSet(PretrainedPoint(self))
       THEN [r EXCEPT !.status = "error", !.error = "AttributeError"]
       ELSE LET p == Val(PretrainedPoint(self))
                a == DecPretrainedLoop(self, 0, p, context_len,
                                       [trace |-> <<>>, raised |-> FALSE])
                b == DecNewLoop(self, p, 0, self.layers - p, context_len, a)
            IN IF b.raised
               THEN [r EXCEPT !.status = "error", !.error = "IndexError",
                              !.trace = b.trace]
               ELSE IF ~IsSet(self.postprocess_layer)
               THEN [r EXCEPT !.status = "error", !.error = "AttributeError",
                              !.trace = b.trace]
               ELSE [r EXCEPT !.trace = b.trace]

\* forward(self, input, context, src, grow=False) of the decoder.
DecForward(self, input, context_len, grow) ==
    IF grow THEN DecForwardGrow(self, input, context_len)
    ELSE DecForwardFull(self, input, context_len)

\* -------------------------------------------------------------------- step
\* Items of an incremental-buffer entry: the self-attention key/value
\* projection of target position pos, or a recurrent hidden state that has
\* consumed pos tokens.
KV(pos) == [kind |-> "kv", pos |-> pos]
Hidden(pos) == [kind |-> "h", pos |-> pos]

\* self.time_transformer(emb, prev_h) of a GRU/LSTM on one token: the hidden
\* state returned has consumed one token more than prev_h (none: a zero state).
TimeStep(prev_h) == Hidden((IF IsSet(prev_h) THEN Val(prev_h).pos ELSE 0) + 1)

\* `prev_h = buffer[0] if buffer is None else None` (line 443), for a buffer
\* that is not None.
PrevH(buf) == None

\* `buffer[0] = emb[1]` (line 445) on the caller's stacked buffer: the
\* hidden state is copied over every position the layer-0 entry holds.
StoreHidden(buf, h) == [buf EXCEPT ![1] = [j \in 1..Len(@) |-> h]]

\* DecoderLayer.step on the entry buffer_ (an option): the new position's
\* projection is concatenated to what the entry holds.
LayerStep(buffer_, t) ==
    Append(IF IsSet(buffer_) THEN Val(buffer_) ELSE <<>>, KV(t))

\* mask_tgt[:, -1, :]: the last row.
LastRow(m) == m[Len(m)]

\* The layer loop of step from index i on; acc = [trace, output_buffer,
\* raised].  buffer[i] and context[i] out of range raise IndexError.
RECURSIVE StepLoop(_, _, _, _, _, _)
StepLoop(self, i, context_len, buf, t, acc) ==
    IF i >= Len(self.layer_modules) THEN acc
    ELSE IF IsSet(buf) /\ i >= Len(Val(buf)) THEN [acc EXCEPT !.raised = TRUE]
    ELSE IF ContextIndex(i) >= context_len THEN [acc EXCEPT !.raised = TRUE]
    ELSE LET buffer_ == IF IsSet(buf) THEN Some(Val(buf)[i + 1]) ELSE None IN
         StepLoop(self, i + 1, context_len, buf, t,
             [acc EXCEPT
                 !.trace = Append(@, Run(self, i, FALSE, TRUE, ContextIndex(i))),
                 !.output_buffer = Append(@, LayerStep(buffer_, t))])

\* step from the mask computation (line 455) to the return; buf is the
\* caller's buffer as the time encoding left it.
StepLayers(self, input, context_len, buf, r) ==
    LET loop == StepLoop(self, 0, context_len, buf, Len(input),
                         [trace |-> <<>>, output_buffer |-> <<>>, raised |-> FALSE])
        r1 == [r EXCEPT !.mask_tgt = <<LastRow(MaskTgt(input, self.mask))>>,
                        !.context_len = context_len,
                        !.buffer_in = buf,
                        !.trace = loop.trace]
    IN IF loop.raised
       THEN [r1 EXCEPT !.status = "error", !.error = "IndexError"]
       ELSE IF ~IsSet(self.postprocess_layer)
       THEN [r1 EXCEPT !.status = "error", !.error = "AttributeError"]
       ELSE [r1 EXCEPT !.buffer_out = Some(loop.output_buffer)]

\* step(self, input, context, src, buffer=None).
DecStep(self, input, context_len, buf) ==
    LET r == [Result("step", "dec", "ok") EXCEPT !.mode = "step", !.buffer_in = buf] IN
    IF self.time = "positional_encoding"
    THEN StepLayers(self, input, context_len, buf, [r EXCEPT !.t = Len(input)])
    ELSE IF ~IsSet(buf)
    THEN [r EXCEPT !.status = "error", !.error = "TypeError"]
    ELSE LET prev_h == PrevH(Val(buf))
             h == TimeStep(prev_h)
         IN IF Len(Val(buf)) = 0
            THEN [r EXCEPT !.status = "error", !.error = "IndexError",
                           !.prev_h = prev_h, !.hidden = Some(h)]
            ELSE StepLayers(self, input, context_len,
                            Some(StoreHidden(Val(buf), h)),
                            [r EXCEPT !.prev_h = prev_h, !.hidden = Some(h)])

\* --------------------------------------------------------------- the system
NotBuilt == EncoderInit(0, FALSE, FALSE, 0)

\* A buffer the decode driver allocated before the first step: one empty
\* entry per decoder layer.
EmptyBuffer(L) == [i \in 1..L |-> <<>>]

InitEncoder(Ls) ==
    \E L \in Ls, training \in BOOLEAN, trained \in BOOLEAN :
        enc = EncoderInit(L, training, trained, 0)

\* A decoder constructed with a configuration drawn from the given sets.
InitDecoder(Ls, trainings, versions, times, lens, heap) ==
    \E L \in Ls, training \in trainings, trained \in BOOLEAN,
       version \in versions, time \in times, len_max \in lens :
        dec = DecoderInit(L, training, trained, version, time, len_max, heap)

\* Growth and the full and grow forward passes of one stack, an encoder or
\* a decoder, under every checkpoint depth and in both training modes.
Init ==
    /\ checkpointing \in CheckpointDepths
    /\ prefix = <<>>
    /\ buffer = None
    /\ \/ /\ built = {"enc"}
          /\ InitEncoder(InitLayerCounts)
          /\ nobj = 2 * enc.layers + 1
          /\ dec = NotBuilt
          /\ ret = Result("__init__", "enc", "ok")
       \/ /\ built = {"dec"}
          /\ InitDecoder(InitLayerCounts, BOOLEAN, {1, 2},
                         {"positional_encoding"}, {MaxLen}, 0)
          /\ nobj = 2 * dec.layers + 1
          /\ enc = NotBuilt
          /\ ret = Result("__init__", "dec", "ok")

\* A decoding session on a decoder in evaluation mode: the driver starts
\* with no buffer or with one empty entry per layer.
InitStep ==
    /\ checkpointing = 0
    /\ prefix = <<>>
    /\ built = {"dec"}
    /\ InitDecoder(InitLayerCounts, {FALSE}, {1, 2}, TimeKinds, 1..MaxLen, 0)
    /\ nobj = 2 * dec.layers + 1
    /\ enc = NotBuilt
    /\ buffer \in {None, Some(EmptyBuffer(dec.layers))}
    /\ ret = Result("__init__", "dec", "ok")

Enc_add_layers(n) ==
    /\ Running /\ "enc" \in built
    /\ Len(enc.layer_modules) + n <= MaxLayers
    /\ LET a == add_layers(enc, n, nobj) IN
         /\ enc' = a.self
         /\ nobj' = a.heap
         /\ ret' = [(IF a.raised THEN Raise("add_layers", "enc", "AttributeError")
                     ELSE Result("add_layers", "enc", "ok")) EXCEPT !.n = n]
    /\ UNCHANGED <<dec, built, checkpointing, prefix, buffer>>

Enc_mark_pretrained ==
    /\ Running /\ "enc" \in built
    /\ enc' = mark_pretrained(enc)
    /\ ret' = Result("mark_pretrained", "enc", "ok")
    /\ UNCHANGED <<dec, built, checkpointing, nobj, prefix, buffer>>

Enc_forward(input, grow) ==
    /\ Running /\ "enc" \in built
    /\ ret' = [EncForward(enc, input, grow) EXCEPT !.grow = grow, !.input = input]
    /\ UNCHANGED <<enc, dec, built, checkpointing, nobj, prefix, buffer>>

Dec_add_layers(n) ==
    /\ Running /\ "dec" \in built
    /\ Len(dec.layer_modules) + n <= MaxLayers
    /\ LET a == add_layers(dec, n, nobj) IN
         /\ dec' = a.self
         /\ nobj' = a.heap
         /\ ret' = [(IF a.raised THEN Raise("add_layers", "dec", "AttributeError")
                     ELSE Result("add_layers", "dec", "ok")) EXCEPT !.n = n]
    /\ UNCHANGED <<enc, built, checkpointing, prefix, buffer>>

Dec_mark_pretrained ==
    /\ Running /\ "dec" \in built
    /\ dec' = mark_pretrained(dec)
    /\ ret' = Result("mark_pretrained", "dec", "ok")
    /\ UNCHANGED <<enc, built, checkpointing, nobj, prefix, buffer>>

Dec_renew_buffer(new_len) ==
    /\ Running /\ "dec" \in built
    /\ dec' = renew_buffer(dec, new_len)
    /\ ret' = [Result("renew_buffer", "dec", "ok") EXCEPT !.n = new_len]
    /\ UNCHANGED <<enc, built, checkpointing, nobj, prefix, buffer>>

\* The caller hands forward an input no longer than the mask register and
\* the positional table (it calls renew_buffer first otherwise).
Dec_forward(input, context_len, grow) ==
    /\ Running /\ "dec" \in built
    /\ Len(input) <= Len(dec.mask)
    /\ ret' = [DecForward(dec, input, context_len, grow) EXCEPT !.grow = grow]
    /\ UNCHANGED <<enc, dec, built, checkpointing, nobj, prefix, buffer>>

\* One step of a decoding session: the driver extends the prefix by one
\* token, passes the buffer it holds and keeps the buffer step returns.
Dec_step(token, context_len) ==
    /\ Running /\ "dec" \in built
    /\ Len(prefix) < MaxLen
    /\ Len(prefix) < Len(dec.mask)
    /\ LET r == DecStep(dec, Append(prefix, token), context_len, buffer) IN
         /\ ret' = r
         /\ buffer' = IF r.status = "ok" THEN r.buffer_out ELSE r.buffer_in
    /\ prefix' = Append(prefix, token)
    /\ UNCHANGED <<enc, dec, built, checkpointing, nobj>>

Next ==
    \/ \E n \in NewLayerCounts : Enc_add_layers(n)
    \/ Enc_mark_pretrained
    \/ \E input \in Inputs, grow \in BOOLEAN : Enc_forward(input, grow)
    \/ \E n \in NewLayerCounts : Dec_add_layers(n)
    \/ Dec_mark_pretrained
    \/ \E input \in Inputs, m \in BankLengths(dec), grow \in BOOLEAN :
           Dec_forward(input, m, grow)

Spec == Init /\ [][Next]_vars

NextStep ==
    \/ Dec_mark_pretrained
    \/ \E new_len \in 1..MaxLen : Dec_renew_buffer(new_len)
    \/ \E input \in Inputs, m \in BankLengths(dec), grow \in BOOLEAN :
           Dec_forward(input, m, grow)
    \/ \E token \in Tokens, m \in BankLengths(dec) : Dec_step(token, m)

SpecStep == InitStep /\ [][NextStep]_vars

\* An encoder and a decoder constructed with the same layer count and taken
\* through the same add_layers and mark_pretrained calls.
InitPair ==
    /\ checkpointing \in CheckpointDepths
    /\ prefix = <<>>
    /\ buffer = None
    /\ built = {"enc", "dec"}
    /\ InitEncoder(InitLayerCounts)
    /\ InitDecoder({enc.layers}, {enc.training}, {1, 2},
                   {"positional_encoding"}, {MaxLen}, 2 * enc.layers + 1)
    /\ nobj = 4 * enc.layers + 2
    /\ ret = Result("__init__", "dec", "ok")

Pair_add_layers(n) ==
    /\ Running
    /\ Len(enc.layer_modules) + n <= MaxLayers
    /\ LET a == add_layers(enc, n, nobj)
           b == add_layers(dec, n, a.heap)
       IN /\ enc' = a.self
          /\ dec' = b.self
          /\ nobj' = b.heap
          /\ ret' = [(IF b.raised THEN Raise("add_layers", "dec", "AttributeError")
                      ELSE Result("add_layers", "dec", "ok")) EXCEPT !.n = n]
    /\ UNCHANGED <<built, checkpointing, prefix, buffer>>

Pair_mark_pretrained ==
    /\ Running
    /\ enc' = mark_pretrained(enc)
    /\ dec' = mark_pretrained(dec)
    /\ ret' = Result("mark_pretrained", "dec", "ok")
    /\ UNCHANGED <<built, checkpointing, nobj, prefix, buffer>>

NextPair ==
    \/ \E n \in NewLayerCounts : Pair_add_layers(n)
    \/ Pair_mark_pretrained
    \/ \E input \in PairInputs, grow \in BOOLEAN : Enc_forward(input, grow)

SpecPair == InitPair /\ [][NextPair]_vars

\* ------------------------------------------------------------------ claims
Called(op, stack) == ret.op = op /\ ret.stack = stack
Returned(op, stack) == Called(op, stack) /\ ret.status = "ok"
Raised(op, stack) == Called(op, stack) /\ ret.status = "error"

StackOf(s) == IF s = "enc" THEN enc ELSE dec

\* C1: for an encoder and a decoder constructed with the same layer count
\* and taken through the same add_layers and mark_pretrained calls, the
\* memory bank an encoder forward returns, full or grow, has exactly as many
\* entries as the decoder has layers, whatever the input tokens.
C1_BankMatchesDecoder ==
    Returned("forward", "enc") =>
        /\ Len(ret.memory_bank) = Len(dec.layer_modules)
        /\ Len(ret.memory_bank) = dec.layers

\* C1 witness: a grow-mode encoder forward after growth returned a bank of
\* three entries for a decoder grown to three layers.
C1_Witness ==
    /\ Returned("forward", "enc") /\ ret.mode = "grow"
    /\ IsSet(enc.pretrained_point) /\ Val(enc.pretrained_point) < enc.layers
    /\ Len(ret.memory_bank) = 3 /\ dec.layers = 3

\* C2: a decoder forward (full or grow) or step given a memory bank whose
\* number of entries differs from the decoder's layer count, shorter or
\* longer, raises instead of returning.
C2_MismatchedBankFails ==
    ((Called("forward", "dec") \/ Called("step", "dec"))
        /\ ret.context_len # Len(dec.layer_modules))
    => ret.status = "error"

Recurrent == dec.time \in {"gru", "lstm"}

\* The items of every entry of buffer b (an option) are key/value
\* projections.
OnlyKV(b) ==
    IsSet(b) =>
        \A i \in 1..Len(Val(b)) :
            \A j \in 1..Len(Val(b)[i]) : Val(b)[i][j].kind = "kv"

\* C3: with a recurrent time encoder every step passes the hidden state the
\* previous step stored to the time encoder and stores the one returned, so
\* after the t-th step of a session the hidden state has consumed t tokens;
\* and the hidden state overwrites no per-layer key/value entry of the
\* caller's buffer.
C3_HiddenStateCarried ==
    (Returned("step", "dec") /\ Recurrent) =>
        /\ Len(prefix) > 1 => IsSet(ret.prev_h)
        /\ Val(ret.hidden).pos = Len(prefix)
        /\ OnlyKV(ret.buffer_in)

\* The layers a call ran, in order, each with the bank entry it read.
LayerOrder(r) == [j \in 1..Len(r.trace) |-> <<r.trace[j].layer, r.trace[j].context>>]

\* C4: the step taken for the last position of a prefix does what a
\* full-mode forward over that prefix does for its last position: the same
\* layers in the same order on the same memory-bank entries, the time
\* encoding of the new position (positional: the position; recurrent: a
\* state that has consumed the whole prefix), the last row of the full-mode
\* target mask, and self-attention over the projections of every position.
C4_StepEqualsForward ==
    Returned("step", "dec") =>
        LET full == DecForwardFull(dec, prefix, ret.context_len)
            t == Len(prefix)
        IN /\ full.status = "ok"
           /\ LayerOrder(ret) = LayerOrder(full)
           /\ ret.mask_tgt = <<LastRow(MaskTgt(prefix, dec.mask))>>
           /\ IF Recurrent THEN Val(ret.hidden).pos = t ELSE ret.t = t
           /\ \A i \in 1..Len(Val(ret.buffer_out)) :
                  Val(ret.buffer_out)[i] = [j \in 1..t |-> KV(j)]

\* The mask register suppresses entry (i, j) iff j > i, over its length.
StrictUpper(mask) ==
    \A i \in 1..Len(mask) :
        /\ Len(mask[i]) = Len(mask)
        /\ \A j \in 1..Len(mask) : (mask[i][j] = 1) <=> (j > i)

\* C5 as stated: the register is strictly upper triangular and no call
\* makes it shorter than it was.
C5_MaskNeverShrinks ==
    [][StrictUpper(dec'.mask) /\ Len(dec'.mask) >= Len(dec.mask)]_vars

\* C5, amended: the register is strictly upper triangular over its current
\* length after construction and after every call; renew_buffer(new_len)
\* sets its length to new_len, longer or shorter; no other call changes it.
C5_MaskStrictUpper ==
    /\ [](StrictUpper(dec.mask))
    /\ [][IF ret'.op = "renew_buffer"
          THEN Len(dec'.mask) = ret'.n
          ELSE dec'.mask = dec.mask]_vars

\* C5 witness: renew_buffer(2) left the register [[0,1],[0,0]].
C5_Witness ==
    /\ Returned("renew_buffer", "dec") /\ ret.n = 2
    /\ dec.mask = <<<<0, 1>>, <<0, 0>>>>

\* The step just taken was a call of op on stack s.
Calls(op, s) == ret'.op = op /\ ret'.stack = s

\* C6: after add_layers(n), n >= 1, returned, the pre-attention parameters
\* of the first appended layer are those the final post-processing unit held
\* before the call, the final post-processing unit is a new object with
\* fresh parameters, and the layers appended after the first hold fresh
\* parameters, not a copy.
C6_GrowthSplicing ==
    [][\A s \in built :
        (Calls("add_layers", s) /\ ret'.status = "ok" /\ ret'.n >= 1) =>
            LET old == StackOf(s)
                new == StackOf(s)'
                L == Len(old.layer_modules)
            IN /\ Len(new.layer_modules) = L + ret'.n
               /\ new.layer_modules[L + 1].preprocess_attn.params
                      = Val(old.postprocess_layer).params
               /\ Val(new.postprocess_layer).id > nobj
               /\ Val(new.postprocess_layer).params = FreshParams
               /\ \A i \in 2..ret'.n :
                      new.layer_modules[L + i].preprocess_attn.params = FreshParams
      ]_vars

\* C6 witness: add_layers(2) on a trained encoder: the first new layer holds
\* the trained parameters of the old final unit, the second fresh ones.
C6_Witness ==
    /\ Returned("add_layers", "enc") /\ ret.n = 2
    /\ LET L == Len(enc.layer_modules) IN
         /\ enc.layer_modules[L - 1].preprocess_attn.params # FreshParams
         /\ enc.layer_modules[L].preprocess_attn.params = FreshParams
         /\ Val(enc.postprocess_layer).params = FreshParams

\* C7: add_layers(n), n >= 0, leaves the existing layers (the same objects
\* at the same indices) and the pretrained boundary as they were; for n = 0
\* also the layer count and the final post-processing unit, so that every
\* later forward, grow forward and step returns what it would have returned.
C7_GrowthFrame ==
    [][\A s \in built :
        Calls("add_layers", s) =>
            LET old == StackOf(s)
                new == StackOf(s)'
                L == Len(old.layer_modules)
            IN /\ Len(new.layer_modules) >= L
               /\ SubSeq(new.layer_modules, 1, L) = old.layer_modules
               /\ new.pretrained_point = old.pretrained_point
               /\ ret'.n = 0 =>
                    /\ new.layers = old.layers
                    /\ new.layer_modules = old.layer_modules
                    /\ new.postprocess_layer = old.postprocess_layer
                    /\ \A input \in Inputs, grow \in BOOLEAN :
                         IF s = "enc"
                         THEN EncForward(new, input, grow) = EncForward(old, input, grow)
                         ELSE \A m \in BankLengths(old) :
                                DecForward(new, input, m, grow)
                                    = DecForward(old, input, m, grow)
                    /\ s = "dec" =>
                         \A token \in Tokens, m \in BankLengths(old) :
                             DecStep(new, Append(prefix, token), m, buffer)
                                 = DecStep(old, Append(prefix, token), m, buffer)
      ]_vars

\* C7 witness: add_layers(0) returned on a decoder of two or more layers
\* whose boundary is recorded.
C7_Witness ==
    /\ Returned("add_layers", "dec") /\ ret.n = 0
    /\ IsSet(dec.pretrained_point) /\ Len(dec.layer_modules) >= 2

\* The number of executions of a trace that went through the checkpoint
\* wrapper.
NumCheckpointed(trace) == Cardinality({j \in 1..Len(trace) : trace[j].ckpt})

\* C8: in a full-mode forward of a stack of L layers with checkpoint depth
\* k, the layer at index i runs through the checkpoint wrapper iff the stack
\* is training and i >= L - k (the last min(k, L) layers when training, none
\* otherwise); the layers run in index order and the memory bank collected
\* is the same whichever way a layer ran.
C8_CheckpointPolicy ==
    \A s \in built :
        (Returned("forward", s) /\ ret.mode = "full") =>
            LET self == StackOf(s)
                L == Len(self.layer_modules)
                k == checkpointing
            IN /\ Len(ret.trace) = L
               /\ \A j \in 1..L :
                    /\ ret.trace[j].idx = j - 1
                    /\ ret.trace[j].layer = self.layer_modules[j].id
                    /\ ret.trace[j].ckpt <=> (self.training /\ j - 1 >= L - k)
                    /\ s = "dec" => ret.trace[j].context = j - 1
               /\ NumCheckpointed(ret.trace) = IF self.training THEN Min(k, L) ELSE 0
               /\ s = "enc" =>
                    ret.memory_bank =
                        [j \in 1..L |-> IF j < L THEN NormInput(j) ELSE FinalOutput(self)]

\* C8 witness: a training encoder of three layers under depth 2 ran layer 0
\* directly and layers 1 and 2 through the wrapper.
C8_Witness ==
    /\ Returned("forward", "enc") /\ ret.mode = "full"
    /\ enc.training /\ checkpointing = 2
    /\ Len(ret.trace) = 3
    /\ ~ret.trace[1].ckpt /\ ret.trace[2].ckpt /\ ret.trace[3].ckpt

\* C9: a forward called with grow=True on a stack on which mark_pretrained
\* was never called raises and returns nothing, whether or not add_layers
\* was called before.
C9_GrowNeedsBoundary ==
    \A s \in built :
        (Called("forward", s) /\ ret.grow /\ ~IsSet(StackOf(s).pretrained_point)) =>
            /\ ret.status = "error"
            /\ ret.memory_bank = <<>>
            /\ ret.trace = <<>>

\* C9 witness: a grow forward raised AttributeError on an encoder that was
\* grown but never marked.
C9_Witness ==
    /\ Raised("forward", "enc") /\ ret.grow /\ ret.error = "AttributeError"
    /\ IsSet(enc.new_modules) /\ ~IsSet(enc.pretrained_point)
    /\ Len(enc.layer_modules) = 3

\* Growth was triggered on the stack and a pretrained boundary is recorded.
InGrow(self) == IsSet(self.new_modules) /\ IsSet(self.pretrained_point)

\* C10 as stated: on a stack that has entered grow mode no forward call
\* runs as a full-mode forward.
C10_NoWayBackToFull ==
    \A s \in built :
        (Called("forward", s) /\ InGrow(StackOf(s))) => ret.mode # "full"

\* C10, amended: a stack keeps no mode.  Every forward call runs in grow
\* mode iff it was called with grow=True and in full mode (every layer, with
\* gradient tracking, under the checkpoint policy) iff with grow=False, also
\* after growth and a recorded boundary; what no call undoes is the
\* boundary and the layers: once recorded the boundary stays recorded, and
\* no layer is removed.
C10_ModeIsPerCall ==
    [][\A s \in built :
        LET old == StackOf(s)
            new == StackOf(s)'
        IN /\ IsSet(old.pretrained_point) => IsSet(new.pretrained_point)
           /\ Len(new.layer_modules) >= Len(old.layer_modules)
           /\ Calls("forward", s) =>
                /\ ret'.mode = IF ret'.grow THEN "grow" ELSE "full"
                /\ (~ret'.grow /\ ret'.status = "ok") =>
                     /\ Len(ret'.trace) = Len(new.layer_modules)
                     /\ \A j \in 1..Len(ret'.trace) :
                          /\ ret'.trace[j].grad
                          /\ ret'.trace[j].ckpt = Checkpointed(new, j - 1)
      ]_vars

\* C10 witness: a full-mode forward returned on an encoder that was marked,
\* grown by a layer and is past its boundary.
C10_Witness ==
    /\ Returned("forward", "enc") /\ ret.mode = "full" /\ ~ret.grow
    /\ InGrow(enc) /\ Val(enc.pretrained_point) < enc.layers

\* A grow-mode forward of stack s in state self; a decoder is given a bank
\* of one entry per layer.
GrowForward(s, self, input) ==
    IF s = "enc" THEN EncForward(self, input, TRUE)
    ELSE DecForward(self, input, Len(self.layer_modules), TRUE)

\* In every grow-mode forward that returns on self, the layers of index
\* below k run without gradient tracking and those from k on with it.
FrozenBelow(s, self, k) ==
    \A input \in Inputs :
        LET r == GrowForward(s, self, input) IN
        r.status = "ok" =>
            \A j \in 1..Len(r.trace) : r.trace[j].grad <=> (r.trace[j].idx >= k)

\* The boundary of a stack never decreases and, once recorded, stays
\* recorded.
BoundaryNeverDecreases(old, new) ==
    IsSet(old.pretrained_point) =>
        /\ IsSet(new.pretrained_point)
        /\ Val(new.pretrained_point) >= Val(old.pretrained_point)

\* C11 as stated: once a boundary is recorded, an add_layers call moves it
\* over the layers the earlier growth calls added (every layer the stack
\* had before the call), so that a later grow-mode forward runs them
\* without gradient tracking; and the boundary never decreases.
C11_GrowthExtendsBoundary ==
    [][\A s \in built :
        LET old == StackOf(s)
            new == StackOf(s)'
        IN /\ BoundaryNeverDecreases(old, new)
           /\ (Calls("add_layers", s) /\ ret'.status = "ok"
                 /\ IsSet(old.pretrained_point)) =>
                /\ Val(new.pretrained_point) >= Len(old.layer_modules)
                /\ \A input \in Inputs :
                     LET r == GrowForward(s, new, input) IN
                     r.status = "ok" =>
                        \A j \in 1..Len(r.trace) :
                            r.trace[j].idx < Len(old.layer_modules)
                                => ~r.trace[j].grad
      ]_vars

\* C11, amended: add_layers leaves a recorded boundary where it is, so in a
\* later grow-mode forward the layers added since the boundary was recorded
\* still run with gradient tracking; only mark_pretrained moves the
\* boundary, to the layer count at the time of the call, after which every
\* layer present runs without gradient tracking; and the boundary never
\* decreases.
C11_BoundaryMovesOnlyByMark ==
    [][\A s \in built :
        LET old == StackOf(s)
            new == StackOf(s)'
        IN /\ BoundaryNeverDecreases(old, new)
           /\ (Calls("add_layers", s) /\ ret'.status = "ok"
                 /\ IsSet(old.pretrained_point)) =>
                /\ new.pretrained_point = old.pretrained_point
                /\ FrozenBelow(s, new, Val(old.pretrained_point))
           /\ Calls("mark_pretrained", s) =>
                /\ new.pretrained_point = Some(Len(old.layer_modules))
                /\ FrozenBelow(s, new, Len(old.layer_modules))
           /\ ~(Calls("add_layers", s) \/ Calls("mark_pretrained", s)) =>
                new.pretrained_point = old.pretrained_point
      ]_vars

\* C11 witness: a second add_layers(1) returned on an encoder whose
\* boundary was recorded before the first: the boundary is still below the
\* layer the first call added, and a grow-mode forward runs that layer with
\* gradient tracking.
C11_Witness ==
    /\ Returned("add_layers", "enc") /\ ret.n = 1
    /\ IsSet(enc.pretrained_point)
    /\ Val(enc.pretrained_point) < Len(enc.layer_modules) - ret.n
    /\ \E input \in Inputs :
         LET r == EncForward(enc, input, TRUE) IN
         /\ r.status = "ok"
         /\ r.trace[Val(enc.pretrained_point) + 1].grad

\* The last call was a full-mode forward that returned, of a two-layer
\* encoder paired with a two-layer decoder, on the scenario's source
\* sentence.
ScenarioForward ==
    /\ Returned("forward", "enc") /\ ret.mode = "full"
    /\ ret.input = ScenarioSrc
    /\ Len(enc.layer_modules) = 2 /\ Len(dec.layer_modules) = 2

\* C12 as stated: the memory bank a two-layer encoder's full-mode forward
\* returns for the source sentence [5, 7, 2] has exactly 3 entries.
C12_ScenarioBankHasThree ==
    ScenarioForward => Len(ret.memory_bank) = 3

\* C12, amended: that memory bank has exactly 2 entries, the normalized
\* input of the second layer and then the final post-processed output: one
\* entry per decoder layer.
C12_ScenarioBankHasTwo ==
    ScenarioForward =>
        /\ Len(ret.memory_bank) = 2
        /\ ret.memory_bank = <<NormInput(1), FinalOutput(enc)>>
        /\ Len(ret.memory_bank) = dec.layers
        /\ ret.mask_src = <<FALSE, FALSE, FALSE>>

\* C12 witness: the scenario's forward returned, on a pair constructed with
\* two layers each and never grown.
C12_Witness ==
    /\ ScenarioForward
    /\ ~IsSet(enc.new_modules) /\ ~IsSet(dec.new_modules)
    /\ Len(ret.trace) = 2

\* The memory bank of a stack of L layers: the normalized input of every
\* layer but the first, in layer order, then the final post-processed
\* output.
BankOf(self) ==
    LET L == Len(self.layer_modules) IN
    [j \in 1..L |-> IF j < L THEN NormInput(j) ELSE FinalOutput(self)]

\* C13: a grow-mode forward that returns, on a stack of L layers with
\* boundary p, 1 <= p <= L, runs every layer 0..L-1 once, in increasing
\* index order; embedding, time encoding, mask construction and the layers
\* below p run without gradient tracking, the layers from p on with it;
\* decoder layer i reads memory-bank entry i; and the encoder returns the
\* memory bank a full-mode forward of the same stack on the same input
\* returns: the normalized input of every layer but the first, then the
\* final post-processed output.
C13_GrowForwardOrder ==
    \A s \in built :
        (Returned("forward", s) /\ ret.mode = "grow") =>
            LET self == StackOf(s)
                L == Len(self.layer_modules)
                p == Val(self.pretrained_point)
            IN /\ IsSet(self.pretrained_point) /\ 1 <= p /\ p <= L
               /\ L = self.layers
               /\ ret.frozen
               /\ Len(ret.trace) = L
               /\ \A j \in 1..L :
                    /\ ret.trace[j].idx = j - 1
                    /\ ret.trace[j].layer = self.layer_modules[j].id
                    /\ ret.trace[j].grad <=> (j - 1 >= p)
                    /\ s = "dec" => ret.trace[j].context = j - 1
               /\ s = "enc" =>
                    /\ ret.memory_bank = EncForwardFull(self, ret.input).memory_bank
                    /\ ret.memory_bank = BankOf(self)
                    /\ ret.mask_src = EncForwardFull(self, ret.input).mask_src

\* C13 witness: a grow-mode forward returned on an encoder of three layers
\* whose boundary is 1: one layer ran frozen, two with gradient tracking.
C13_Witness ==
    /\ Returned("forward", "enc") /\ ret.mode = "grow"
    /\ Len(enc.layer_modules) = 3 /\ enc.pretrained_point = Some(1)
    /\ ~ret.trace[1].grad /\ ret.trace[2].grad /\ ret.trace[3].grad
    /\ Len(ret.memory_bank) = 3

====
